---- MODULE Spec2Model ----
(***************************************************************************)
(* Device and Appium-server lifecycle of core/device_manager.py            *)
(* (class DeviceManager): the server registry _appium_servers with its     *)
(* asynchronous and synchronous start/stop paths, and the monitor loop.    *)
(***************************************************************************)
EXTENDS Integers, FiniteSets, Sequences, TLC

\* ---------------------------------------------------------------- bounds
MaxPort == 2
MaxSpawn == 2
MaxLoops == 2
MaxTime == 11
MaxRetries == 3

Ports == 1..MaxPort
Procs == 1..MaxSpawn
\* Two callers: enough for every pair of overlapping calls.
Tasks == {1, 2}
LoopIds == 1..MaxLoops
\* Two callers of start_monitoring / stop_monitoring, two devices.
MonCallers == {1, 2}
Devices == {"A", "B"}

\* self._cache_timeout (line 67), in seconds.
cache_timeout == 5

\* DeviceCache.__init__ (line 23): timeout = 5.0 seconds.
DeviceCache_timeout == 5

\* Two threads that query the device list; the values a cache can hold.
Threads == {1, 2}
Platforms == {"android", "ios"}
Vals == {"v", "w"}

\* Devices are the Android serials; one iOS udid besides them.  The
\* platform tools list the attached devices in a fixed order.
IosDevices == {"I"}
AllDevices == Devices \cup IosDevices
Order == <<"A", "B", "I">>
PlatformOf(d) == IF d \in IosDevices THEN "ios" ELSE "android"
None == "None"

VARIABLES
    appium_servers,  \* self._appium_servers: port -> [kind, proc]
    server_lock,     \* self._server_lock: 0 when free, else the holding task
    procs,           \* the OS processes spawned so far
    nspawn,          \* number of processes spawned so far
    task,            \* the calls in flight: one record per caller
    one_loop,        \* TRUE: the async calls are coroutines of one event loop
    lastOp,          \* history per port: last = the last completed call was a
                     \* start returning True; live = a start returned True and
                     \* no stop has completed since
    stop_event,      \* self._stop_event (threading.Event): is it set
    monitor_task,    \* self._monitor_task: 0 while the attribute does not exist
    loop,            \* the _monitor_loop tasks created so far
    mon,             \* the start_monitoring / stop_monitoring calls in flight
    iter,            \* history: the last _refresh_devices iteration
    attached,        \* environment: the device ids the platform enumerates
    unresponsive,    \* environment: the attached ids whose probe fails
    devices_cache,   \* self._devices_cache: id -> device record
    cache_time,      \* self._cache_time
    now,             \* time.time(), in seconds
    platform,        \* self._platform
    bound,           \* history: the port of the server started for a device
    dcache,          \* a DeviceCache: self._cache, key -> [data, timestamp]
    gd,              \* the get_devices / set_platform calls in flight
    ret              \* what the last query returned

serverVars == <<appium_servers, server_lock, procs, nspawn, task, one_loop, lastOp>>
monVars == <<stop_event, monitor_task, loop, mon, iter, attached, unresponsive>>
devVars == <<devices_cache, cache_time, now, platform, dcache, gd, ret>>
vars == <<appium_servers, server_lock, procs, nspawn, task, one_loop, lastOp,
          stop_event, monitor_task, loop, mon, iter, attached, unresponsive,
          devices_cache, cache_time, now, platform, bound, dcache, gd, ret>>

\* ------------------------------------------------------------ registry
\* A registry value is the dict written by start_appium_server_async
\* ("dict": {'host','port','process','start_time'}) or the bare Popen
\* object written by _start_appium_server_internal ("popen").
NoEntry == [kind |-> "none", proc |-> 0]
Registered(p) == appium_servers[p].kind # "none"
RegistryPorts == {p \in Ports : Registered(p)}

\* A process: the port it was started for, whether it is booting, up
\* (listening) or dead, and whether SIGTERM was sent to it while alive.
NoProc == [port |-> 0, st |-> "unborn", sig |-> "none"]
DeadProc == [port |-> 0, st |-> "dead", sig |-> "none"]
Alive(q) == procs[q].st \in {"booting", "up"}

\* is_port_in_use / _is_port_in_use: a connect to the port succeeds exactly
\* when some process listens on it.
is_port_in_use(p) == \E q \in Procs : procs[q].port = p /\ procs[q].st = "up"

\* GET /wd/hub/status (or /status) can answer 200 only when a server
\* listens on the port, whichever process that is.
HealthCanAnswer200(p) == \E q \in Procs : procs[q].port = p /\ procs[q].st = "up"

IdleTask == [pc |-> "idle", op |-> "none", port |-> 0, proc |-> 0, how |-> "none"]

\* A thread that sits in `with self._server_lock` blocks: when it is the
\* thread of the shared event loop, no other coroutine of that loop runs.
IsAsync(u) == task[u].op \in {"start_async", "stop_async"}
InAcquire(u) == IsAsync(u) /\ task[u].pc \in {"lock", "reg"}
Runnable(t) == one_loop => \A u \in Tasks \ {t} : ~InAcquire(u)

\* History: a call on port p completed as kind.
OpDone(p, kind) ==
    [lastOp EXCEPT ![p] = [last |-> kind = "start_true",
                           live |-> \/ kind = "start_true"
                                    \/ kind = "start_false" /\ lastOp[p].live]]

Finish(t, how) == [task EXCEPT ![t].pc = "done", ![t].proc = 0, ![t].how = how]
Done(t, op, p, how) == [task EXCEPT ![t] = [pc |-> "done", op |-> op, port |-> p,
                                             proc |-> 0, how |-> how]]
Begin(t, op, p, pc, q) == [task EXCEPT ![t] = [pc |-> pc, op |-> op, port |-> p,
                                                proc |-> q, how |-> "none"]]

\* A thread that is in no call; no query has returned yet.
IdleCall == [pc |-> "idle", t0 |-> 0, ids |-> << >>, failed |-> {}, recs |-> << >>]
NoRet == [op |-> "none", bit |-> FALSE]

\* A query returns val; how names the branch of the code that returned.
Returned(op, key, val, how) ==
    [op |-> op, key |-> key, val |-> val, how |-> how, bit |-> ~ret.bit]

\* A monitor task that does not exist yet; a caller that is not calling.
NoLoop == "none"
IdleMon == [pc |-> "idle", op |-> "none", target |-> 0, how |-> "none"]

\* The state after DeviceManager.__init__, but for the processes.
InitRest ==
    /\ appium_servers = [p \in Ports |-> NoEntry]
    /\ server_lock = 0
    /\ task = [t \in Tasks |-> IdleTask]
    /\ one_loop \in BOOLEAN
    /\ lastOp = [p \in Ports |-> [last |-> FALSE, live |-> FALSE]]
    /\ stop_event = FALSE
    /\ monitor_task = 0
    /\ loop = [k \in LoopIds |-> NoLoop]
    /\ mon = [c \in MonCallers |-> IdleMon]
    /\ iter = [bit |-> FALSE, seen |-> {}, updates |-> {}, disconnected |-> {},
               err |-> "none"]
    /\ attached = {}
    /\ unresponsive = {}
    /\ devices_cache = << >>
    /\ cache_time = 0
    /\ now = cache_timeout
    /\ platform = "android"
    /\ bound = [d \in Devices |-> 0]
    /\ dcache = << >>
    /\ gd = [c \in Threads |-> IdleCall]
    /\ ret = NoRet

Init ==
    /\ InitRest
    /\ procs = [q \in Procs |-> NoProc]
    /\ nspawn = 0

\* ------------------------------------------------- the server processes
\* A spawned server binds its port and starts to answer, which it can only
\* do while no other process listens on that port.
ProcListen(q) ==
    /\ procs[q].st = "booting"
    /\ ~is_port_in_use(procs[q].port)
    /\ procs' = [procs EXCEPT ![q].st = "up"]
    /\ UNCHANGED <<appium_servers, server_lock, nspawn, task, one_loop, lastOp>>
    /\ UNCHANGED <<monVars, devVars, bound>>

\* A process exits: after SIGTERM, because it could not bind, or by itself.
ProcExit(q) ==
    /\ Alive(q)
    /\ procs' = [procs EXCEPT ![q] = DeadProc]
    /\ UNCHANGED <<appium_servers, server_lock, nspawn, task, one_loop, lastOp>>
    /\ UNCHANGED <<monVars, devVars, bound>>

\* ------------------------------------------ start_appium_server_async
\* Lines 187-193: the port-occupancy check; 195-228: up to the awaited spawn.
start_appium_server_async_begin(t, p) ==
    /\ task[t].pc = "idle"
    /\ Runnable(t)
    /\ IF is_port_in_use(p)
         THEN /\ task' = Done(t, "start_async", p, "busy")
              /\ lastOp' = OpDone(p, "start_false")
         ELSE /\ task' = Begin(t, "start_async", p, "spawn", 0)
              /\ UNCHANGED lastOp
    /\ UNCHANGED <<appium_servers, server_lock, procs, nspawn, one_loop>>
    /\ UNCHANGED <<monVars, devVars>>

start_appium_server_async_call(t, p) ==
    /\ start_appium_server_async_begin(t, p)
    /\ UNCHANGED bound

\* Lines 214-228: asyncio.create_subprocess_shell; an error it raises is
\* caught at line 255 and the call returns False.
start_appium_server_async_spawn(t) ==
    /\ task[t].pc = "spawn" /\ task[t].op = "start_async"
    /\ Runnable(t)
    /\ \/ /\ nspawn < MaxSpawn
          /\ nspawn' = nspawn + 1
          /\ procs' = [procs EXCEPT ![nspawn + 1] =
                          [port |-> task[t].port, st |-> "booting", sig |-> "none"]]
          /\ task' = [task EXCEPT ![t].pc = "poll", ![t].proc = nspawn + 1]
          /\ UNCHANGED lastOp
       \/ /\ task' = Finish(t, "spawnerr")
          /\ lastOp' = OpDone(task[t].port, "start_false")
          /\ UNCHANGED <<procs, nspawn>>
    /\ UNCHANGED <<appium_servers, server_lock, one_loop>>
    /\ UNCHANGED <<monVars, devVars, bound>>

\* Lines 232-237: a poll answered with 200; the thread then enters
\* `with self._server_lock` (line 238).  A poll that raises or answers
\* another status leaves the state as it is (lines 246-248).
start_appium_server_async_poll200(t) ==
    /\ task[t].pc = "poll" /\ task[t].op = "start_async"
    /\ Runnable(t)
    /\ HealthCanAnswer200(task[t].port)
    /\ task' = [task EXCEPT ![t].pc = "reg"]
    /\ UNCHANGED <<appium_servers, server_lock, procs, nspawn, one_loop, lastOp>>
    /\ UNCHANGED <<monVars, devVars, bound>>

\* Lines 238-245: the registry write under the lock, return True.
RegisterEntry(p, q) == [appium_servers EXCEPT ![p] = [kind |-> "dict", proc |-> q]]

start_appium_server_async_register(t) ==
    /\ task[t].pc = "reg" /\ task[t].op = "start_async"
    /\ server_lock = 0
    /\ appium_servers' = RegisterEntry(task[t].port, task[t].proc)
    /\ task' = Finish(t, "registered")
    /\ lastOp' = OpDone(task[t].port, "start_true")
    /\ UNCHANGED <<server_lock, procs, nspawn, one_loop>>
    /\ UNCHANGED <<monVars, devVars, bound>>

\* _kill_process, lines 293-299: kill() and wait(); errors are caught.
KillProc(pr, q) ==
    IF pr[q].st \in {"booting", "up"}
      THEN [pr EXCEPT ![q] = DeadProc]
      ELSE pr

\* Mutant: the entry is written although no poll answered 200.
start_appium_server_async_timeout_leak(t) ==
    /\ task[t].pc = "poll" /\ task[t].op = "start_async"
    /\ Runnable(t)
    /\ procs' = KillProc(procs, task[t].proc)
    /\ appium_servers' = RegisterEntry(task[t].port, task[t].proc)
    /\ task' = Finish(t, "timeout")
    /\ lastOp' = OpDone(task[t].port, "start_false")
    /\ UNCHANGED <<server_lock, nspawn, one_loop>>
    /\ UNCHANGED <<monVars, devVars, bound>>

\* Lines 250-253: the start timeout elapsed without a 200.
start_appium_server_async_timeout(t) ==
    /\ task[t].pc = "poll" /\ task[t].op = "start_async"
    /\ Runnable(t)
    /\ procs' = KillProc(procs, task[t].proc)
    /\ task' = Finish(t, "timeout")
    /\ lastOp' = OpDone(task[t].port, "start_false")
    /\ UNCHANGED <<appium_servers, server_lock, nspawn, one_loop>>
    /\ UNCHANGED <<monVars, devVars, bound>>

\* ------------------------------------------- stop_appium_server_async
\* Line 265: the thread goes for the registry lock.
stop_appium_server_async_call(t, p) ==
    /\ task[t].pc = "idle"
    /\ Runnable(t)
    /\ task' = Begin(t, "stop_async", p, "lock", 0)
    /\ UNCHANGED <<appium_servers, server_lock, procs, nspawn, one_loop, lastOp>>
    /\ UNCHANGED <<monVars, devVars, bound>>

\* Mutant: the del of line 287 / 498 forgotten.
RemoveEntry_kept(p) == appium_servers

RemoveEntry(p) == [appium_servers EXCEPT ![p] = NoEntry]

\* Lines 265-277 and 282-287: with the lock held, look the port up;
\* absent: return (267-269); a bare Popen value: server_info['process']
\* raises TypeError, caught at 289 with the entry left in place;
\* terminate() raising (it does when the process is gone): _kill_process
\* and the del of line 287; otherwise wait for the exit, lock still held.
stop_appium_server_async_locked(t) ==
    LET p == task[t].port
        e == appium_servers[p]
    IN
    /\ task[t].pc = "lock" /\ task[t].op = "stop_async"
    /\ server_lock = 0
    /\ CASE e.kind = "none" ->
              /\ task' = Finish(t, "absent")
              /\ lastOp' = OpDone(p, "stop")
              /\ UNCHANGED <<appium_servers, server_lock, procs>>
         [] e.kind = "popen" ->
              /\ task' = Finish(t, "error")
              /\ lastOp' = OpDone(p, "stop")
              /\ UNCHANGED <<appium_servers, server_lock, procs>>
         [] e.kind = "dict" ->
              \E err \in BOOLEAN :
                 /\ ~Alive(e.proc) => err
                 /\ IF err
                      THEN /\ procs' = KillProc(procs, e.proc)
                           /\ appium_servers' = RemoveEntry(p)
                           /\ task' = Finish(t, "termerr")
                           /\ lastOp' = OpDone(p, "stop")
                           /\ UNCHANGED server_lock
                      ELSE /\ procs' = [procs EXCEPT ![e.proc].sig = "term"]
                           /\ server_lock' = t
                           /\ task' = [task EXCEPT ![t].pc = "wait", ![t].proc = e.proc]
                           /\ UNCHANGED <<appium_servers, lastOp>>
    /\ UNCHANGED <<nspawn, one_loop>>
    /\ UNCHANGED <<monVars, devVars, bound>>

\* Line 287 after the wait: del self._appium_servers[port]; a KeyError
\* (the entry went away meanwhile) is caught at line 289.
stop_appium_server_async_del(t, how) ==
    LET p == task[t].port IN
    /\ IF Registered(p)
         THEN /\ appium_servers' = RemoveEntry(p)
              /\ task' = Finish(t, how)
         ELSE /\ UNCHANGED appium_servers
              /\ task' = Finish(t, "error")
    /\ lastOp' = OpDone(p, "stop")
    /\ server_lock' = 0

\* Lines 277-278: the process exited within the graceful timeout.
stop_appium_server_async_exited(t) ==
    /\ task[t].pc = "wait" /\ task[t].op = "stop_async"
    /\ Runnable(t)
    /\ ~Alive(task[t].proc)
    /\ stop_appium_server_async_del(t, "graceful")
    /\ UNCHANGED <<procs, nspawn, one_loop>>
    /\ UNCHANGED <<monVars, devVars, bound>>

\* Lines 279-281: the graceful wait timed out; _kill_process.
stop_appium_server_async_killed(t) ==
    /\ task[t].pc = "wait" /\ task[t].op = "stop_async"
    /\ Runnable(t)
    /\ Alive(task[t].proc)
    /\ procs' = KillProc(procs, task[t].proc)
    /\ stop_appium_server_async_del(t, "killed")
    /\ UNCHANGED <<nspawn, one_loop>>
    /\ UNCHANGED <<monVars, devVars, bound>>

\* ------------------------------------------------ kill_process_by_port
\* utils/helpers.py: kill -9 / taskkill of whoever listens on the port.
kill_process_by_port(pr, p) ==
    [q \in Procs |-> IF pr[q].port = p /\ pr[q].st = "up"
                       THEN DeadProc
                       ELSE pr[q]]

\* --------------------------------------- _start_appium_server_internal
\* Lines 424-432: an occupied port is freed with kill_process_by_port;
\* when that fails the call returns False.
start_appium_server_internal_call(t, p) ==
    /\ task[t].pc = "idle"
    /\ \/ /\ procs' = (IF is_port_in_use(p) THEN kill_process_by_port(procs, p) ELSE procs)
          /\ task' = Begin(t, "start_sync", p, "spawn", 0)
          /\ UNCHANGED lastOp
       \/ /\ is_port_in_use(p)
          /\ task' = Done(t, "start_sync", p, "busy")
          /\ lastOp' = OpDone(p, "start_false")
          /\ UNCHANGED procs
    /\ UNCHANGED <<appium_servers, server_lock, nspawn, one_loop>>
    /\ UNCHANGED <<monVars, devVars, bound>>

\* Lines 434-449: subprocess.Popen; an error is caught at line 470.
start_appium_server_internal_spawn(t) ==
    /\ task[t].pc = "spawn" /\ task[t].op = "start_sync"
    /\ \/ /\ nspawn < MaxSpawn
          /\ nspawn' = nspawn + 1
          /\ procs' = [procs EXCEPT ![nspawn + 1] =
                          [port |-> task[t].port, st |-> "booting", sig |-> "none"]]
          /\ task' = [task EXCEPT ![t].pc = "poll", ![t].proc = nspawn + 1]
          /\ UNCHANGED lastOp
       \/ /\ task' = Finish(t, "spawnerr")
          /\ lastOp' = OpDone(task[t].port, "start_false")
          /\ UNCHANGED <<procs, nspawn>>
    /\ UNCHANGED <<appium_servers, server_lock, one_loop>>
    /\ UNCHANGED <<monVars, devVars, bound>>

\* Lines 455-460: a poll answered with 200: the Popen object is stored
\* under the port, without the lock, and the call returns True.
RegisterPopen(p, q) == [appium_servers EXCEPT ![p] = [kind |-> "popen", proc |-> q]]

start_appium_server_internal_poll200(t) ==
    /\ task[t].pc = "poll" /\ task[t].op = "start_sync"
    /\ HealthCanAnswer200(task[t].port)
    /\ appium_servers' = RegisterPopen(task[t].port, task[t].proc)
    /\ task' = Finish(t, "registered")
    /\ lastOp' = OpDone(task[t].port, "start_true")
    /\ UNCHANGED <<server_lock, procs, nspawn, one_loop>>
    /\ UNCHANGED <<monVars, devVars, bound>>

\* Lines 465-468: timeout: process.terminate(), return False.
start_appium_server_internal_timeout(t) ==
    /\ task[t].pc = "poll" /\ task[t].op = "start_sync"
    /\ procs' = [procs EXCEPT ![task[t].proc].sig = "term"]
    /\ task' = Finish(t, "timeout")
    /\ lastOp' = OpDone(task[t].port, "start_false")
    /\ UNCHANGED <<appium_servers, server_lock, nspawn, one_loop>>
    /\ UNCHANGED <<monVars, devVars, bound>>

\* Lines 461 and 470-472: requests.get raising anything but
\* ConnectionError/Timeout leaves the poll loop through the outer except:
\* return False, the process neither terminated nor registered.
start_appium_server_internal_pollerr(t) ==
    /\ task[t].pc = "poll" /\ task[t].op = "start_sync"
    /\ task' = Finish(t, "pollerr")
    /\ lastOp' = OpDone(task[t].port, "start_false")
    /\ UNCHANGED <<appium_servers, server_lock, procs, nspawn, one_loop>>
    /\ UNCHANGED <<monVars, devVars, bound>>

\* ------------------------------------------------- stop_appium_server
\* Mutant: the port is freed (lines 494-496) before the membership test.
stop_appium_server_call_frees(t, p) ==
    /\ task[t].pc = "idle"
    /\ procs' = kill_process_by_port(procs, p)
    /\ task' = Done(t, "stop_sync", p, IF Registered(p) THEN "error" ELSE "absent")
    /\ lastOp' = OpDone(p, "stop")
    /\ UNCHANGED <<appium_servers, server_lock, nspawn, one_loop>>
    /\ UNCHANGED <<monVars, devVars, bound>>

\* Lines 480-488: port absent: nothing to do; a dict value (written by
\* the async start) has no terminate(): AttributeError, caught at 520;
\* terminate() may raise: caught at 520; else wait for the exit.
stop_appium_server_call(t, p) ==
    LET e == appium_servers[p] IN
    /\ task[t].pc = "idle"
    /\ CASE e.kind = "none" ->
              /\ task' = Done(t, "stop_sync", p, "absent")
              /\ lastOp' = OpDone(p, "stop")
              /\ UNCHANGED procs
         [] e.kind = "dict" ->
              /\ task' = Done(t, "stop_sync", p, "error")
              /\ lastOp' = OpDone(p, "stop")
              /\ UNCHANGED procs
         [] e.kind = "popen" ->
              \/ /\ task' = Done(t, "stop_sync", p, "termerr")
                 /\ lastOp' = OpDone(p, "stop")
                 /\ UNCHANGED procs
              \/ /\ procs' = [procs EXCEPT ![e.proc].sig = "term"]
                 /\ task' = Begin(t, "stop_sync", p, "wait", e.proc)
                 /\ UNCHANGED lastOp
    /\ UNCHANGED <<appium_servers, server_lock, nspawn, one_loop>>
    /\ UNCHANGED <<monVars, devVars, bound>>

\* Lines 493-499: free the port if it still answers, then del the entry;
\* a KeyError is caught at line 520.
stop_appium_server_del(t, pr, how) ==
    LET p == task[t].port IN
    /\ procs' = (IF \E q \in Procs : pr[q].port = p /\ pr[q].st = "up"
                   THEN kill_process_by_port(pr, p) ELSE pr)
    /\ IF Registered(p)
         THEN /\ appium_servers' = RemoveEntry(p)
              /\ task' = Finish(t, how)
         ELSE /\ UNCHANGED appium_servers
              /\ task' = Finish(t, "error")
    /\ lastOp' = OpDone(p, "stop")

\* Line 488: wait(timeout=5) returned: the process has exited.
stop_appium_server_exited(t) ==
    /\ task[t].pc = "wait" /\ task[t].op = "stop_sync"
    /\ ~Alive(task[t].proc)
    /\ stop_appium_server_del(t, procs, "graceful")
    /\ UNCHANGED <<server_lock, nspawn, one_loop>>
    /\ UNCHANGED <<monVars, devVars, bound>>

\* Lines 489-491: TimeoutExpired: kill(), then lines 493-499.
stop_appium_server_killed(t) ==
    /\ task[t].pc = "wait" /\ task[t].op = "stop_sync"
    /\ Alive(task[t].proc)
    /\ stop_appium_server_del(t, KillProc(procs, task[t].proc), "killed")
    /\ UNCHANGED <<server_lock, nspawn, one_loop>>
    /\ UNCHANGED <<monVars, devVars, bound>>

\* Lines 488/491 raising (wait() other than TimeoutExpired, or kill()):
\* caught at line 520, the entry is left in place.
stop_appium_server_waiterr(t) ==
    /\ task[t].pc = "wait" /\ task[t].op = "stop_sync"
    /\ task' = Finish(t, "waiterr")
    /\ lastOp' = OpDone(task[t].port, "stop")
    /\ UNCHANGED <<appium_servers, server_lock, procs, nspawn, one_loop>>
    /\ UNCHANGED <<monVars, devVars, bound>>

\* The caller takes the result; the task slot is free again.
Return(t) ==
    /\ task[t].pc = "done"
    /\ task' = [task EXCEPT ![t] = IdleTask]
    /\ UNCHANGED <<appium_servers, server_lock, procs, nspawn, one_loop, lastOp>>
    /\ UNCHANGED <<monVars, devVars, bound>>

\* ============================================================= devices
\* self.devices (line 59) is created empty and no statement of the
\* repository stores into it.
devices == << >>

\* get_device_info (lines 98-106): self.devices.get(device_id, {}).copy().
get_device_info(d) == IF d \in DOMAIN devices THEN devices[d] ELSE << >>

\* adb.device_list() / TiDevice.list_devices(): the attached devices of
\* the platform that is asked.
Enumerated(pl) == {d \in attached : PlatformOf(d) = pl}

\* The validation of _get_device_ids (lines 554-569 and 595-606): echo test
\* on an Android device, info() on an iOS device.  An id is kept when the
\* probe answers; the probe of an unresponsive device fails or raises.
Validated(pl) == Enumerated(pl) \ unresponsive

\* The record built by _get_android_device_info / _get_ios_device_info.
DeviceRecord(d) == [id |-> d, platform |-> platform, status |-> "connected"]

\* Every record the manager holds for device d.
DeviceRecords(d) ==
    (IF d \in DOMAIN devices_cache THEN {devices_cache[d]} ELSE {})
    \cup (IF d \in DOMAIN devices THEN {devices[d]} ELSE {})

\* The environment: a device is plugged in or removed.
Attach(d) ==
    /\ d \notin attached
    /\ attached' = attached \cup {d}
    /\ UNCHANGED <<serverVars, devVars, bound>>
    /\ UNCHANGED <<stop_event, monitor_task, loop, mon, iter, unresponsive>>

Detach(d) ==
    /\ d \in attached
    /\ attached' = attached \ {d}
    /\ unresponsive' = unresponsive \ {d}
    /\ UNCHANGED <<serverVars, devVars, bound>>
    /\ UNCHANGED <<stop_event, monitor_task, loop, mon, iter>>

\* get_devices (lines 129-148) with _get_devices_internal (150-183) and
\* _get_device_ids (533-600): a fresh non-empty cache is returned as it is;
\* otherwise the ids that pass validation and whose details can be read
\* are recorded, each as connected.
get_devices ==
    /\ IF (now - cache_time) < cache_timeout /\ DOMAIN devices_cache # {}
         THEN UNCHANGED <<devices_cache, cache_time>>
         ELSE \E valid \in SUBSET Validated(platform) :
                /\ devices_cache' = [d \in valid |-> DeviceRecord(d)]
                /\ cache_time' = now
    /\ UNCHANGED <<serverVars, monVars, now, platform, bound, dcache, gd, ret>>

\* check_port_in_use (utils/helpers.py 176-183): a connect to the port
\* succeeds.
check_port_in_use(p) == is_port_in_use(p)

\* A variant of the scan that returns a port without trying to bind it.
RECURSIVE get_free_port_scan_nobind(_, _, _, _)
get_free_port_scan_nobind(port, end_port, exclude_ports, unbindable) ==
    IF port > end_port THEN 0
    ELSE IF port \in exclude_ports
      THEN get_free_port_scan_nobind(port + 1, end_port, exclude_ports, unbindable)
    ELSE IF check_port_in_use(port)
      THEN get_free_port_scan_nobind(port + 1, end_port, exclude_ports, unbindable)
    ELSE port

\* get_free_port (utils/helpers.py 234-263), the loop from port on: an
\* excluded port is skipped, a port that answers a connect is skipped, a
\* port whose bind raises OSError is skipped, the first other port is
\* returned; None (0) when the range is used up.
RECURSIVE get_free_port_scan(_, _, _, _)
get_free_port_scan(port, end_port, exclude_ports, unbindable) ==
    IF port > end_port THEN 0
    ELSE IF port \in exclude_ports
      THEN get_free_port_scan(port + 1, end_port, exclude_ports, unbindable)
    ELSE IF check_port_in_use(port)
      THEN get_free_port_scan(port + 1, end_port, exclude_ports, unbindable)
    ELSE IF port \in unbindable
      THEN get_free_port_scan(port + 1, end_port, exclude_ports, unbindable)
    ELSE port

\* get_free_port() as the GUI calls it: the whole range, nothing excluded.
get_free_port == get_free_port_scan(1, MaxPort, {}, {})

\* A call get_free_port(start_port, end_port, exclude_ports), with the
\* ports that cannot be bound although nothing answers on them.
get_free_port_call(start_port, end_port, exclude_ports, unbindable) ==
    /\ ret' = Returned("get_free_port",
                       [start_port |-> start_port, end_port |-> end_port,
                        exclude_ports |-> exclude_ports, unbindable |-> unbindable],
                       get_free_port_scan(start_port, end_port, exclude_ports,
                                          unbindable),
                       "returned")
    /\ UNCHANGED <<serverVars, monVars, bound>>
    /\ UNCHANGED <<devices_cache, cache_time, now, platform, dcache, gd>>

\* DeviceTab._start_appium_for_device (gui/device_tab.py 444-455): for an
\* item of the device list, a free port is taken and
\* start_appium_server_async(port=port) is scheduled.  Nothing is written
\* to the device; bound remembers for which device the port was taken.
\* With port=None, is_port_in_use raises inside, answers True, and the
\* call returns False.
start_appium_for_device(t, d) ==
    /\ d \in DOMAIN devices_cache
    /\ bound' = [x \in Devices |->
                    IF x = d THEN get_free_port
                    ELSE IF bound[x] = get_free_port THEN 0 ELSE bound[x]]
    /\ IF get_free_port = 0
         THEN /\ task[t].pc = "idle"
              /\ Runnable(t)
              /\ task' = Done(t, "start_async", 0, "busy")
              /\ UNCHANGED <<appium_servers, server_lock, procs, nspawn,
                             one_loop, lastOp>>
              /\ UNCHANGED <<monVars, devVars>>
         ELSE start_appium_server_async_begin(t, get_free_port)

\* ============================================================= monitor
LoopAlive(k) == loop[k] \in {"created", "sleeping"}
LoopRunning == \E k \in LoopIds : LoopAlive(k)
nloops == Cardinality({k \in LoopIds : loop[k] # "none"})

\* The monitor coroutines run on the event loop of the GUI: they advance
\* only while no coroutine of that loop sits in a blocking lock acquire.
LoopFree == one_loop => \A u \in Tasks : ~InAcquire(u)

MonDone(c, op, how) ==
    [mon EXCEPT ![c] = [pc |-> "done", op |-> op, target |-> 0, how |-> how]]

\* start_monitoring (lines 774-789).
start_monitoring(c) ==
    /\ mon[c].pc = "idle"
    /\ LoopFree
    /\ IF ~stop_event
         THEN /\ mon' = MonDone(c, "start", "already")
              /\ UNCHANGED <<stop_event, monitor_task, loop>>
         ELSE /\ nloops < MaxLoops
              /\ stop_event' = FALSE
              /\ monitor_task' = nloops + 1
              /\ loop' = [loop EXCEPT ![nloops + 1] = "created"]
              /\ mon' = MonDone(c, "start", "started")
    /\ UNCHANGED <<iter, attached, unresponsive>>
    /\ UNCHANGED <<serverVars, devVars, bound>>

\* stop_monitoring (lines 791-807) up to its await: awaiting a task that
\* is already finished does not suspend.
stop_monitoring(c) ==
    /\ mon[c].pc = "idle"
    /\ LoopFree
    /\ IF stop_event
         THEN /\ mon' = MonDone(c, "stop", "already")
              /\ UNCHANGED stop_event
         ELSE /\ stop_event' = TRUE
              /\ IF monitor_task # 0 /\ loop[monitor_task] # "done"
                   THEN mon' = [mon EXCEPT ![c] =
                                   [pc |-> "await", op |-> "stop",
                                    target |-> monitor_task, how |-> "none"]]
                   ELSE mon' = MonDone(c, "stop", "stopped")
    /\ UNCHANGED <<monitor_task, loop, iter, attached, unresponsive>>
    /\ UNCHANGED <<serverVars, devVars, bound>>

\* stop_monitoring, lines 802-804: the awaited task has finished.
stop_monitoring_resume(c) ==
    /\ mon[c].pc = "await"
    /\ LoopFree
    /\ loop[mon[c].target] = "done"
    /\ mon' = MonDone(c, "stop", "stopped")
    /\ UNCHANGED <<stop_event, monitor_task, loop, iter, attached, unresponsive>>
    /\ UNCHANGED <<serverVars, devVars, bound>>

\* The caller takes the result.
MonReturn(c) ==
    /\ mon[c].pc = "done"
    /\ mon' = [mon EXCEPT ![c] = IdleMon]
    /\ UNCHANGED <<stop_event, monitor_task, loop, iter, attached, unresponsive>>
    /\ UNCHANGED <<serverVars, devVars, bound>>

\* _update_device_status (lines 864-893) returns at line 870 when
\* get_device_info gives an empty record, and otherwise fails at line 873
\* on the missing attribute _device_cache, which line 891 catches.
update_device_status(d) ==
    IF get_device_info(d) = << >> THEN "return" ELSE "AttributeError"

\* A variant in which line 849 finds the recorded devices and goes on to
\* lines 854-856: the Android branch collects serials (835), the iOS
\* branch the entries of list_devices() themselves (844), which equal no
\* recorded id.
refresh_devices_compares(cur) ==
    [bit |-> ~iter.bit, seen |-> cur,
     updates |-> {update_device_status(d) : d \in cur},
     disconnected |-> {d \in DOMAIN devices_cache :
                          devices_cache[d].status # "disconnected"}
                      \ (IF platform = "android" THEN cur ELSE {}),
     err |-> "none"]

\* _refresh_devices (lines 825-862): cur are the ids enumerated before the
\* enumeration ended or failed.  Line 849 reads self._device_cache, an
\* attribute __init__ (56-79) never creates: the AttributeError is caught
\* at line 860, so lines 854-856 (_handle_device_disconnected) never run.
\* disconnected are the ids handed to _handle_device_disconnected (895-916),
\* the only code of the monitor that sets a status to disconnected and
\* stops a server.
refresh_devices(cur) ==
    [bit |-> ~iter.bit, seen |-> cur,
     updates |-> {update_device_status(d) : d \in cur},
     disconnected |-> {},
     err |-> "AttributeError"]

\* A variant of the loop that gives up when an iteration fails.
monitor_loop_dies(k) ==
    /\ LoopAlive(k)
    /\ LoopFree
    /\ IF stop_event
         THEN /\ loop' = [loop EXCEPT ![k] = "done"]
              /\ UNCHANGED iter
         ELSE \E cur \in SUBSET Enumerated(platform) :
                /\ iter' = refresh_devices(cur)
                /\ loop' = [loop EXCEPT ![k] =
                       IF iter'.err = "none" THEN "sleeping" ELSE "done"]
    /\ UNCHANGED <<stop_event, monitor_task, mon, attached, unresponsive>>
    /\ UNCHANGED <<serverVars, devVars, bound>>

\* _monitor_loop (lines 809-823): one turn of the while loop, from the
\* test of the stop flag to the next sleep.
monitor_loop(k) ==
    /\ LoopAlive(k)
    /\ LoopFree
    /\ IF stop_event
         THEN /\ loop' = [loop EXCEPT ![k] = "done"]
              /\ UNCHANGED iter
         ELSE \E cur \in SUBSET Enumerated(platform) :
                /\ iter' = refresh_devices(cur)
                /\ loop' = [loop EXCEPT ![k] = "sleeping"]
    /\ UNCHANGED <<stop_event, monitor_task, mon, attached, unresponsive>>
    /\ UNCHANGED <<serverVars, devVars, bound>>

\* ================================================== time and DeviceCache
\* time.time() advances.
Tick ==
    /\ now < MaxTime
    /\ now' = now + 1
    /\ UNCHANGED <<serverVars, monVars, bound>>
    /\ UNCHANGED <<devices_cache, cache_time, platform, dcache, gd, ret>>

\* A variant of the freshness test with < in place of <=.
DeviceCache_fresh_strict(k) == now - dcache[k].timestamp < DeviceCache_timeout

\* DeviceCache.get, line 32: time.time() - timestamp <= self._timeout.
DeviceCache_fresh(k) == now - dcache[k].timestamp <= DeviceCache_timeout

Without(f, ks) == [x \in (DOMAIN f) \ ks |-> f[x]]
With(f, k, v) == [x \in (DOMAIN f) \cup {k} |-> IF x = k THEN v ELSE f[x]]

\* DeviceCache.get (lines 28-35).
DeviceCache_get(k) ==
    /\ IF k \in DOMAIN dcache
         THEN IF DeviceCache_fresh(k)
                THEN /\ ret' = Returned("DeviceCache.get", k, dcache[k].data, "hit")
                     /\ UNCHANGED dcache
                ELSE /\ dcache' = Without(dcache, {k})
                     /\ ret' = Returned("DeviceCache.get", k, None, "expired")
         ELSE /\ ret' = Returned("DeviceCache.get", k, None, "absent")
              /\ UNCHANGED dcache
    /\ UNCHANGED <<serverVars, monVars, bound>>
    /\ UNCHANGED <<devices_cache, cache_time, now, platform, gd>>

\* DeviceCache.set (lines 37-39).
DeviceCache_set(k, v) ==
    /\ dcache' = With(dcache, k, [data |-> v, timestamp |-> now])
    /\ ret' = Returned("DeviceCache.set", k, v, "set")
    /\ UNCHANGED <<serverVars, monVars, bound>>
    /\ UNCHANGED <<devices_cache, cache_time, now, platform, gd>>

\* DeviceCache.clear (lines 41-43).
DeviceCache_clear ==
    /\ dcache # << >>
    /\ dcache' = << >>
    /\ UNCHANGED <<serverVars, monVars, bound>>
    /\ UNCHANGED <<devices_cache, cache_time, now, platform, gd, ret>>

\* DeviceCache.clean_expired (lines 45-53).
DeviceCache_clean_expired ==
    /\ dcache' = Without(dcache, {k \in DOMAIN dcache :
                                     now - dcache[k].timestamp > DeviceCache_timeout})
    /\ dcache' # dcache
    /\ UNCHANGED <<serverVars, monVars, bound>>
    /\ UNCHANGED <<devices_cache, cache_time, now, platform, gd, ret>>

\* ================================= get_devices and set_platform, threaded
\* The ids of a set in the order of enumeration; the ids of a list.
SeqOf(S) == SelectSeq(Order, LAMBDA d : d \in S)
IdsOf(recs) == {recs[i].id : i \in DOMAIN recs}

\* list(self._devices_cache.values()): the records in insertion order.
CacheList == [i \in DOMAIN SeqOf(DOMAIN devices_cache) |->
                 devices_cache[SeqOf(DOMAIN devices_cache)[i]]]

\* The cache test of get_devices, lines 134-136.
CacheHit == (now - cache_time) < cache_timeout /\ DOMAIN devices_cache # {}

\* _get_android_device_info reads every property best-effort and can
\* return a record for whatever id it is given; _get_ios_device_info
\* raises for an id that is no attached iOS device.  Either may raise
\* DeviceError for any id.
DetailCanSucceed(d, pl) == pl = "android" \/ d \in Enumerated("ios")

\* get_devices, lines 131-136: the time is read, the cache is tried.
get_devices_begin(c) ==
    /\ gd[c].pc = "idle"
    /\ IF CacheHit
         THEN /\ ret' = Returned("get_devices", c, CacheList, "hit")
              /\ UNCHANGED gd
         ELSE /\ gd' = [gd EXCEPT ![c] = [pc |-> "ids", t0 |-> now,
                                          ids |-> << >>, failed |-> {},
                                          recs |-> << >>]]
              /\ UNCHANGED ret
    /\ UNCHANGED <<serverVars, monVars, bound>>
    /\ UNCHANGED <<devices_cache, cache_time, now, platform, dcache>>

\* _get_device_ids (lines 533-622): the ids listed under the platform of
\* this moment that pass validation, in the order of the listing.
get_devices_ids(c) ==
    /\ gd[c].pc = "ids"
    /\ \E valid \in SUBSET Validated(platform) :
          gd' = [gd EXCEPT ![c].pc = "detail", ![c].ids = SeqOf(valid)]
    /\ UNCHANGED <<serverVars, monVars, bound>>
    /\ UNCHANGED <<devices_cache, cache_time, now, platform, dcache, ret>>

RecordsOf(ok) == [i \in DOMAIN SeqOf(ok) |-> DeviceRecord(SeqOf(ok)[i])]
ListedIds(c) == {gd[c].ids[i] : i \in DOMAIN gd[c].ids}

\* A variant of the detail loop in which one failed fetch empties the list.
get_devices_detail_abort(c) ==
    /\ gd[c].pc = "detail"
    /\ \E ok \in SUBSET ListedIds(c) :
          /\ \A d \in ok : DetailCanSucceed(d, platform)
          /\ gd' = [gd EXCEPT ![c].pc = "store",
                              ![c].failed = ListedIds(c) \ ok,
                              ![c].recs = IF ok = ListedIds(c)
                                            THEN RecordsOf(ok) ELSE << >>]
    /\ UNCHANGED <<serverVars, monVars, bound>>
    /\ UNCHANGED <<devices_cache, cache_time, now, platform, dcache, ret>>

\* _get_devices_internal, lines 161-177: one record per id whose detail
\* fetch succeeds, under the platform of this moment; a fetch that raises
\* is logged and skipped.
get_devices_detail(c) ==
    /\ gd[c].pc = "detail"
    /\ \E ok \in SUBSET ListedIds(c) :
          /\ \A d \in ok : DetailCanSucceed(d, platform)
          /\ gd' = [gd EXCEPT ![c].pc = "store",
                              ![c].failed = ListedIds(c) \ ok,
                              ![c].recs = RecordsOf(ok)]
    /\ UNCHANGED <<serverVars, monVars, bound>>
    /\ UNCHANGED <<devices_cache, cache_time, now, platform, dcache, ret>>

\* get_devices, lines 141-146: the cache is replaced, stamped with the
\* time read at the start of the call, and the list is returned.
get_devices_store(c) ==
    /\ gd[c].pc = "store"
    /\ devices_cache' = [d \in IdsOf(gd[c].recs) |->
          gd[c].recs[CHOOSE i \in DOMAIN gd[c].recs : gd[c].recs[i].id = d]]
    /\ cache_time' = gd[c].t0
    /\ ret' = Returned("get_devices", c, gd[c].recs, "miss")
    /\ gd' = [gd EXCEPT ![c] = IdleCall]
    /\ UNCHANGED <<serverVars, monVars, bound>>
    /\ UNCHANGED <<now, platform, dcache>>

\* set_platform, lines 85-90: the platform is switched.
set_platform(c, p) ==
    /\ gd[c].pc = "idle"
    /\ platform' = p
    /\ gd' = [gd EXCEPT ![c].pc = "clear"]
    /\ UNCHANGED <<serverVars, monVars, bound>>
    /\ UNCHANGED <<devices_cache, cache_time, now, dcache, ret>>

\* clear_cache (lines 93-97), as the last statement of set_platform.
set_platform_clear(c) ==
    /\ gd[c].pc = "clear"
    /\ devices_cache' = << >>
    /\ cache_time' = 0
    /\ gd' = [gd EXCEPT ![c] = IdleCall]
    /\ UNCHANGED <<serverVars, monVars, bound>>
    /\ UNCHANGED <<now, platform, dcache, ret>>

\* clear_cache called by itself.
clear_cache ==
    /\ devices_cache # << >> \/ cache_time # 0
    /\ devices_cache' = << >>
    /\ cache_time' = 0
    /\ UNCHANGED <<serverVars, monVars, bound>>
    /\ UNCHANGED <<now, platform, dcache, gd, ret>>

\* A variant of get_device_info that looks an unknown id up by discovery.
get_device_info_call_discovers(d) ==
    /\ ret' = Returned("get_device_info", d, get_device_info(d), "lookup")
    /\ IF get_device_info(d) = << >>
         THEN /\ devices_cache' = [x \in Enumerated(platform) |-> DeviceRecord(x)]
              /\ cache_time' = now
         ELSE UNCHANGED <<devices_cache, cache_time>>
    /\ UNCHANGED <<serverVars, monVars, bound>>
    /\ UNCHANGED <<now, platform, dcache, gd>>

\* A call of get_device_info (lines 99-107): a lookup in self.devices
\* under self._lock; the copy of the record, or of {}, is returned.
get_device_info_call(d) ==
    /\ ret' = Returned("get_device_info", d, get_device_info(d), "lookup")
    /\ UNCHANGED <<serverVars, monVars, bound>>
    /\ UNCHANGED <<devices_cache, cache_time, now, platform, dcache, gd>>

\* get_appium_servers (lines 301-311): host, port and uptime of every
\* registry entry, read under the lock; no entry is probed.  An entry
\* that is a bare Popen (written by the synchronous start) makes
\* info['host'] raise TypeError.
get_appium_servers ==
    /\ server_lock = 0
    /\ IF \E p \in Ports : appium_servers[p].kind = "popen"
         THEN ret' = Returned("get_appium_servers", 0, {}, "TypeError")
         ELSE ret' = Returned("get_appium_servers", 0, RegistryPorts, "listed")
    /\ UNCHANGED <<serverVars, monVars, bound>>
    /\ UNCHANGED <<devices_cache, cache_time, now, platform, dcache, gd>>

\* The environment: an attached device stops answering the probe (it is
\* listed as offline or unauthorized), or answers again.
ProbeFails(d) ==
    /\ d \in attached \ unresponsive
    /\ unresponsive' = unresponsive \cup {d}
    /\ UNCHANGED <<serverVars, devVars, bound>>
    /\ UNCHANGED <<stop_event, monitor_task, loop, mon, iter, attached>>

ProbeAnswers(d) ==
    /\ d \in unresponsive
    /\ unresponsive' = unresponsive \ {d}
    /\ UNCHANGED <<serverVars, devVars, bound>>
    /\ UNCHANGED <<stop_event, monitor_task, loop, mon, iter, attached>>

\* ====================================================== _retry_operation
\* What one call of the operation does: it returns True or False, or it
\* raises one of two exceptions.
Outcomes == {"True", "False", "E1", "E2"}
Raises(o) == o \in {"E1", "E2"}

\* A variant of the loop that sleeps after every failed attempt.
RECURSIVE retry_loop_sleeps(_, _, _, _, _)
retry_loop_sleeps(attempt, max_retries, outcome, last_error, trace) ==
    IF attempt >= max_retries
      THEN [raised |-> TRUE,
            result |-> IF last_error = None THEN "TypeError" ELSE last_error,
            trace |-> trace]
    ELSE IF ~Raises(outcome[attempt + 1])
      THEN [raised |-> FALSE, result |-> outcome[attempt + 1],
            trace |-> Append(trace, "call")]
    ELSE retry_loop_sleeps(attempt + 1, max_retries, outcome, outcome[attempt + 1],
                           trace \o <<"call", "sleep">>)

\* _retry_operation (lines 397-416), the for loop from attempt on:
\* outcome[i] is what the i-th call of the operation does, trace the calls
\* and sleeps so far.  The first result is returned; an exception is kept
\* in last_error and followed by a sleep unless the attempt was the last;
\* after the loop last_error is raised (raise None is a TypeError).
RECURSIVE retry_loop(_, _, _, _, _)
retry_loop(attempt, max_retries, outcome, last_error, trace) ==
    IF attempt >= max_retries
      THEN [raised |-> TRUE,
            result |-> IF last_error = None THEN "TypeError" ELSE last_error,
            trace |-> trace]
    ELSE IF ~Raises(outcome[attempt + 1])
      THEN [raised |-> FALSE, result |-> outcome[attempt + 1],
            trace |-> Append(trace, "call")]
    ELSE retry_loop(attempt + 1, max_retries, outcome, outcome[attempt + 1],
                    trace \o (IF attempt < max_retries - 1
                                THEN <<"call", "sleep">> ELSE <<"call">>))

retry_operation(max_retries, outcome) ==
    retry_loop(0, max_retries, outcome, None, << >>)

\* A call of _retry_operation on a manager configured with max_retries,
\* for an operation whose calls behave as outcome says.
retry_operation_call(max_retries, outcome) ==
    /\ ret' = Returned("_retry_operation",
                       [max_retries |-> max_retries, outcome |-> outcome],
                       retry_operation(max_retries, outcome), "returned")
    /\ UNCHANGED <<serverVars, monVars, bound>>
    /\ UNCHANGED <<devices_cache, cache_time, now, platform, dcache, gd>>


\* self.max_retries (line 74), the default of the configuration.
max_retries == 3

\* What a call of _start_appium_server_internal (lines 422-472) gives to
\* _retry_operation: True when it registered the server; every failure,
\* exceptions included (line 470), ends in return False.
start_appium_server_internal_outcome(how) ==
    IF how = "registered" THEN "True" ELSE "False"

\* start_appium_server (lines 418-420): _retry_operation applied to
\* _start_appium_server_internal, the first call of which ended as how
\* says.
start_appium_server(how) ==
    retry_operation(max_retries,
                    [i \in 1..max_retries |-> start_appium_server_internal_outcome(how)])

\* =============================================================== steps
\* The environment: the spawned processes.
ProcStep ==
    \/ \E q \in Procs : ProcListen(q)
    \/ \E q \in Procs : ProcExit(q)

\* The asynchronous API, as the GUI calls it (gui/device_tab.py).
AsyncStep(t) ==
    \/ \E p \in Ports : start_appium_server_async_call(t, p)
    \/ start_appium_server_async_spawn(t)
    \/ start_appium_server_async_poll200(t)
    \/ start_appium_server_async_register(t)
    \/ start_appium_server_async_timeout(t)
    \/ \E p \in Ports : stop_appium_server_async_call(t, p)
    \/ stop_appium_server_async_locked(t)
    \/ stop_appium_server_async_exited(t)
    \/ stop_appium_server_async_killed(t)
    \/ Return(t)

\* The synchronous API.
SyncStep(t) ==
    \/ \E p \in Ports : start_appium_server_internal_call(t, p)
    \/ start_appium_server_internal_spawn(t)
    \/ start_appium_server_internal_poll200(t)
    \/ start_appium_server_internal_timeout(t)
    \/ start_appium_server_internal_pollerr(t)
    \/ \E p \in Ports : stop_appium_server_call(t, p)
    \/ stop_appium_server_exited(t)
    \/ stop_appium_server_killed(t)
    \/ stop_appium_server_waiterr(t)

\* Concurrent callers of the asynchronous API.
Next ==
    \/ ProcStep
    \/ \E t \in Tasks : AsyncStep(t)

Spec == Init /\ [][Next]_vars

\* One caller at a time, on both APIs.
NextSeq ==
    \/ ProcStep
    \/ AsyncStep(1)
    \/ SyncStep(1)

\* The synchronous API runs on the caller's own thread.
InitSeq == Init /\ ~one_loop

SpecSeq == InitSeq /\ [][NextSeq]_vars

\* The monitor alone: two callers of start_monitoring / stop_monitoring.
MonitorStep(c) ==
    \/ start_monitoring(c)
    \/ stop_monitoring(c)
    \/ stop_monitoring_resume(c)
    \/ MonReturn(c)

DeviceEnv ==
    \/ \E d \in Devices : Attach(d)
    \/ \E d \in Devices : Detach(d)

NextMonitor ==
    \/ \E c \in MonCallers : MonitorStep(c)
    \/ \E k \in LoopIds : monitor_loop(k)
    \/ DeviceEnv

\* The GUI schedules its coroutines on one event loop.
InitGui == Init /\ one_loop

SpecMonitor == InitGui /\ [][NextMonitor]_vars

\* asyncio runs every task that is ready.
FairMonitor == \A k \in LoopIds : WF_vars(monitor_loop(k))

SpecMonitorFair == SpecMonitor /\ FairMonitor

\* Devices, their servers and the monitor, driven as the GUI drives them.
NextGui ==
    \/ ProcStep
    \/ get_devices
    \/ DeviceEnv
    \/ \E d \in Devices : start_appium_for_device(1, d)
    \/ start_appium_server_async_spawn(1)
    \/ start_appium_server_async_poll200(1)
    \/ start_appium_server_async_register(1)
    \/ start_appium_server_async_timeout(1)
    \/ \E p \in Ports : stop_appium_server_async_call(1, p)
    \/ stop_appium_server_async_locked(1)
    \/ stop_appium_server_async_exited(1)
    \/ stop_appium_server_async_killed(1)
    \/ Return(1)
    \/ MonitorStep(1)
    \/ \E k \in LoopIds : monitor_loop(k)

SpecGui == InitGui /\ [][NextGui]_vars


\* A DeviceCache on its own, with the clock.
NextCache ==
    \/ Tick
    \/ \E k \in Devices : DeviceCache_get(k)
    \/ \E k \in Devices : \E v \in Vals : DeviceCache_set(k, v)
    \/ DeviceCache_clear
    \/ DeviceCache_clean_expired

SpecCache == Init /\ [][NextCache]_vars


DeviceEnvAll ==
    \/ \E d \in AllDevices : Attach(d)
    \/ \E d \in AllDevices : Detach(d)

\* Threads that list the devices and switch the platform.
DevicesStep(c) ==
    \/ get_devices_begin(c)
    \/ get_devices_ids(c)
    \/ get_devices_detail(c)
    \/ get_devices_store(c)
    \/ \E p \in Platforms : set_platform(c, p)
    \/ set_platform_clear(c)

NextDevices ==
    \/ DeviceEnvAll
    \/ \E c \in Threads : DevicesStep(c)

\* Each caller runs on a thread of its own.
InitThreads == Init /\ ~one_loop

SpecDevices == InitThreads /\ [][NextDevices]_vars


\* One thread that lists and looks up devices while time passes.
NextDevicesSeq ==
    \/ Tick
    \/ DeviceEnvAll
    \/ DevicesStep(1)
    \/ clear_cache
    \/ \E d \in AllDevices : get_device_info_call(d)

SpecDevicesSeq == InitThreads /\ [][NextDevicesSeq]_vars


\* One caller of the asynchronous API who also lists the servers.
NextList ==
    \/ ProcStep
    \/ AsyncStep(1)
    \/ get_appium_servers

SpecList == InitSeq /\ [][NextList]_vars


\* The port allocator on its own: every process spawned so far either
\* listens on its port or has exited.
InitPorts ==
    /\ InitRest
    /\ ~one_loop
    /\ nspawn = MaxSpawn
    /\ procs \in [Procs -> {DeadProc} \cup
                    {[port |-> p, st |-> "up", sig |-> "none"] : p \in Ports}]
    /\ \A q, r \in Procs : (q # r /\ Alive(q) /\ Alive(r))
                              => procs[q].port # procs[r].port

\* At most one port of the range is bound without answering.
BindFails == {{}} \cup {{p} : p \in Ports}

NextPorts ==
    \/ \E q \in Procs : ProcExit(q)
    \/ \E s, e \in Ports : \E ex \in SUBSET Ports : \E unb \in BindFails :
          get_free_port_call(s, e, ex, unb)

SpecPorts == InitPorts /\ [][NextPorts]_vars

\* One thread lists the devices while the monitor runs and devices come,
\* go and stop answering.
\* One device of each platform.
OnePerPlatform == {"A", "I"}

ProbeEnv ==
    \/ \E d \in OnePerPlatform : Attach(d)
    \/ \E d \in OnePerPlatform : Detach(d)
    \/ \E d \in OnePerPlatform : ProbeFails(d)
    \/ \E d \in OnePerPlatform : ProbeAnswers(d)

NextValidate ==
    \/ MonitorStep(1)
    \/ \E k \in LoopIds : monitor_loop(k)
    \/ ProbeEnv
    \/ DevicesStep(1)

SpecValidate == InitGui /\ [][NextValidate]_vars

\* _retry_operation on its own, for every max_retries up to the bound and
\* every behaviour of the operation.
NextRetry ==
    \E n \in 0..MaxRetries : \E outcome \in [1..n -> Outcomes] :
        retry_operation_call(n, outcome)

SpecRetry == InitSeq /\ [][NextRetry]_vars

\* ================================================================ claims
Stops == {"stop_async", "stop_sync"}
Starts == {"start_async", "start_sync"}
Quiescent == \A t \in Tasks : task[t].pc \in {"idle", "done"}
\* The step completes call t.
Completes(t) == task[t].pc # "done" /\ task'[t].pc = "done"

\* C2 (as stated): once all calls have completed, the registry holds exactly
\* the ports whose most recent completed call was a start returning True.
C2_RegistryIsLastStartTrue ==
    Quiescent => \A p \in Ports : Registered(p) <=> lastOp[p].last

\* C2 (amended): the registry holds exactly the ports for which a
\* start_appium_server_async call returned True with no
\* stop_appium_server_async call on that port completed since; a later start
\* that is rejected or fails returns False and leaves the entry in place.
C2_RegistryIsLiveStarts ==
    \A p \in Ports : Registered(p) <=> lastOp[p].live

\* C2 witness: all calls done; one port is registered although the last call
\* on it was a failed start, another port was started and stopped again.
C2_Witness ==
    /\ Quiescent
    /\ \E p \in Ports : Registered(p) /\ ~lastOp[p].last
    /\ \E p \in Ports : ~Registered(p) /\ \E t \in Tasks :
           task[t].pc = "done" /\ task[t].port = p /\ task[t].how = "graceful"

\* C3: a stop that found its port in the registry has removed the entry when
\* it returns, whatever the termination outcome, on both stop paths.
C3_StopAlwaysRemoves ==
    \A t \in Tasks :
        (task[t].pc = "done" /\ task[t].op \in Stops /\ task[t].how # "absent")
            => ~Registered(task[t].port)

\* C4 (as stated): a start that ran into the start timeout returns False and
\* its port is absent from the registry.
C4_TimeoutLeavesPortAbsent ==
    \A t \in Tasks :
        (task[t].pc = "done" /\ task[t].op \in Starts /\ task[t].how = "timeout")
            => ~Registered(task[t].port)

\* C4 (amended): a start that runs into the start timeout returns False and
\* leaves the registry as it was (it adds no entry; an entry an earlier start
\* registered for the port stays); an entry is written only by the step of a
\* start call whose health poll answered 200.
C4_OnlyHealthyStartRegisters ==
    [][ /\ \A t \in Tasks :
             (Completes(t) /\ task'[t].how = "timeout")
                 => appium_servers' = appium_servers
        /\ \A p \in Ports :
             (appium_servers'[p] # appium_servers[p] /\ appium_servers'[p].kind # "none")
                 => \E t \in Tasks :
                      /\ Completes(t) /\ task'[t].how = "registered"
                      /\ task[t].op \in Starts /\ task[t].port = p
                      /\ appium_servers'[p].proc = task[t].proc
                      /\ \/ task[t].op = "start_async" /\ task[t].pc = "reg"
                         \/ task[t].op = "start_sync" /\ task[t].pc = "poll"
                              /\ HealthCanAnswer200(p)
      ]_vars

\* C4 witness: a start has timed out on a port that is not registered; the
\* process it spawned is still alive, with SIGTERM sent (the sync path).
C4_Witness ==
    \E t \in Tasks :
        /\ task[t].pc = "done" /\ task[t].how = "timeout"
        /\ ~Registered(task[t].port)
        /\ \E q \in Procs : procs[q].port = task[t].port /\ procs[q].sig = "term"

\* C5: while a start on port p is between its occupancy check and its
\* return, no other start or stop on p is under way.
C5_StartStopSerializedPerPort ==
    \A t \in Tasks, u \in Tasks :
        (t # u /\ task[t].op = "start_async" /\ task[t].pc \in {"spawn", "poll", "reg"})
            => ~(task[u].port = task[t].port /\ task[u].pc \notin {"idle", "done"})

\* C5 witness of the race: two start calls on one port have both returned
\* True, each having spawned a process of its own.
C5_BothStartsRegistered ==
    \E t \in Tasks, u \in Tasks :
        /\ t # u /\ task[t].port = task[u].port
        /\ task[t].pc = "done" /\ task[t].op = "start_async" /\ task[t].how = "registered"
        /\ task[u].pc = "done" /\ task[u].op = "start_async" /\ task[u].how = "registered"
        /\ nspawn = 2

\* C6: a stop whose lookup finds the port absent returns normally, signals
\* no process and leaves the registry (and its lock) as they were.
C6_StopAbsentIsNoOp ==
    [][ \A t \in Tasks :
          LET lookup == \/ task[t].op = "stop_async" /\ task[t].pc = "lock"
                           /\ task'[t].pc # "lock"
                        \/ task[t].pc = "idle" /\ task'[t].op = "stop_sync"
          IN (lookup /\ ~Registered(task'[t].port))
                 => /\ task'[t].pc = "done" /\ task'[t].how = "absent"
                    /\ appium_servers' = appium_servers
                    /\ procs' = procs
                    /\ server_lock' = server_lock
      ]_vars

\* C6 witness: a stop on a port has returned through the absent branch while
\* a process still listens on that very port.
C6_Witness ==
    \E t \in Tasks :
        /\ task[t].pc = "done" /\ task[t].op \in Stops /\ task[t].how = "absent"
        /\ is_port_in_use(task[t].port)

\* ------------------------------------------------------------- monitor
\* A step in which a _refresh_devices iteration ran.
IterationRan == iter'.bit # iter.bit
RecordedConnected(d) ==
    d \in DOMAIN devices_cache /\ devices_cache[d].status = "connected"
CarriesPort(r, p) == "appium_port" \in DOMAIN r /\ r.appium_port = p

\* The server started for device d is registered on port p.
BoundTo(d, p) == bound[d] = p /\ Registered(p)

\* C1: for a device recorded as connected whose server is registered on
\* port p, when a monitor iteration runs that does not enumerate the
\* device, then at the end of the iteration the device's status is
\* disconnected and p is no key of the registry.
C1_DisconnectCoupling ==
    [][\A d \in Devices : \A p \in Ports :
          (IterationRan /\ RecordedConnected(d) /\ BoundTo(d, p)
             /\ d \notin iter'.seen)
            => /\ \A r \in DeviceRecords(d)' : r.status = "disconnected"
               /\ appium_servers'[p].kind = "none"]_vars

\* A device with a running registered server was recorded as connected and
\* an iteration ran that did not enumerate it.
C1_Witness ==
    \E d \in Devices :
        /\ RecordedConnected(d)
        /\ bound[d] # 0 /\ Registered(bound[d]) /\ lastOp[bound[d]].live
        /\ iter.err # "none" /\ d \notin iter.seen

StartSucceeds(t) ==
    /\ task[t].pc # "done" /\ task'[t].pc = "done"
    /\ task'[t].op = "start_async" /\ task'[t].how = "registered"

\* C7: a device record that carries appium_port = p has p as a key of the
\* registry, and a start that succeeds for a device leaves that device's
\* record carrying the port.
C7_DevicePortIsRegistered ==
    [][/\ \A d \in Devices : \A p \in Ports :
             (\E r \in DeviceRecords(d)' : CarriesPort(r, p))
               => appium_servers'[p].kind # "none"
       /\ \A t \in Tasks : \A d \in Devices :
             (StartSucceeds(t) /\ bound[d] = task'[t].port)
               => \E r \in DeviceRecords(d)' : CarriesPort(r, task'[t].port)]_vars

\* The server started for a recorded device is registered.
C7_Witness ==
    \E d \in Devices :
        /\ d \in DOMAIN devices_cache
        /\ bound[d] # 0 /\ Registered(bound[d])
        /\ task[1].pc = "done" /\ task[1].how = "registered"
        /\ task[1].port = bound[d]

MonCalls(c, op) == mon[c].pc = "idle" /\ mon'[c].pc # "idle" /\ mon'[c].op = op
MonReturns(c, op) == mon[c].pc # "done" /\ mon'[c].pc = "done" /\ mon'[c].op = op

\* C8: start_monitoring called while a loop task runs creates no further
\* task and returns True; stop_monitoring called while no loop task runs
\* changes nothing of the monitor and returns True.
C8_MonitoringIdempotent ==
    [][\A c \in MonCallers :
          /\ (MonCalls(c, "start") /\ LoopRunning)
               => loop' = loop /\ mon'[c].pc = "done"
          /\ (MonCalls(c, "stop") /\ ~LoopRunning)
               => /\ UNCHANGED <<stop_event, monitor_task, loop>>
                  /\ mon'[c].pc = "done"]_vars

\* start_monitoring has returned "started" while an older loop task was
\* still alive: two loop tasks run.
C8_TwoLoops ==
    /\ \E c \in MonCallers : mon[c].pc = "done" /\ mon[c].how = "started"
    /\ Cardinality({k \in LoopIds : LoopAlive(k)}) = 2

\* C9: when a stop_monitoring call returns, no loop task is alive.
C9_StopReturnsAfterLoopEnded ==
    [][\A c \in MonCallers : MonReturns(c, "stop") => ~LoopRunning']_vars

\* A second stop_monitoring has returned while the first still awaits the
\* loop task.
C9_SecondStopOverlaps ==
    \E c, e \in MonCallers :
        /\ mon[c].pc = "await" /\ LoopAlive(mon[c].target)
        /\ mon[e].pc = "done" /\ mon[e].op = "stop" /\ mon[e].how = "already"

\* C10: a loop task ends only in a step taken with the stop flag set; a
\* step in which an iteration failed ends no loop task; and while the
\* flag stays clear a sleeping task runs a further iteration.
C10_LoopSurvivesFailure ==
    /\ [][\A k \in LoopIds :
             /\ (loop[k] # "done" /\ loop'[k] = "done") => stop_event
             /\ (IterationRan /\ iter'.err # "none" /\ LoopAlive(k))
                  => loop'[k] \in {"created", "sleeping"}]_vars
    /\ \A k \in LoopIds : \A b \in BOOLEAN :
          (loop[k] = "sleeping" /\ iter.bit = b)
              ~> (iter.bit # b \/ stop_event)

\* The only loop task has failed in two iterations and waits for a third.
C10_Witness ==
    /\ nloops = 1 /\ loop[1] = "sleeping"
    /\ ~stop_event
    /\ iter.err = "AttributeError" /\ iter.bit = FALSE

\* -------------------------------------------------------- device caches
Gets(k) == ret'.bit # ret.bit /\ ret'.op = "DeviceCache.get" /\ ret'.key = k
Sets(k) == ret'.bit # ret.bit /\ ret'.op = "DeviceCache.set" /\ ret'.key = k

\* C11: get(k) on an entry older than the timeout returns None and removes
\* the entry; get(k) on an absent key returns None, and a key becomes
\* present only by set(k, v); get(k) on an entry not older than the
\* timeout returns the value that was set.
C11_CacheTTL ==
    [][\A k \in Devices :
          /\ (Gets(k) /\ k \in DOMAIN dcache
                /\ now - dcache[k].timestamp > DeviceCache_timeout)
               => ret'.val = None /\ k \notin DOMAIN dcache'
          /\ (Gets(k) /\ k \notin DOMAIN dcache)
               => ret'.val = None /\ k \notin DOMAIN dcache'
          /\ (k \notin DOMAIN dcache /\ k \in DOMAIN dcache') => Sets(k)
          /\ (Gets(k) /\ k \in DOMAIN dcache
                /\ now - dcache[k].timestamp <= DeviceCache_timeout)
               => ret'.val = dcache[k].data /\ dcache' = dcache
          /\ Sets(k) => dcache'[k] = [data |-> ret'.val, timestamp |-> now]]_vars

\* get has found an entry older than the timeout, returned None and
\* removed it.
C11_Witness ==
    \E k \in Devices :
        /\ ret.op = "DeviceCache.get" /\ ret.key = k
        /\ ret.how = "expired" /\ ret.val = None
        /\ k \notin DOMAIN dcache

OfPlatform(r, pl) == r.platform = pl /\ PlatformOf(r.id) = pl
SwitchInFlight == \E c \in Threads : gd[c].pc = "clear"
GetDevicesReturns == ret'.bit # ret.bit /\ ret'.op = "get_devices"

\* C12: while no set_platform is in flight, every entry of the device-list
\* cache is a device of the current platform, and every list that
\* get_devices returns holds only devices of the current platform.
C12_OnlyCurrentPlatform ==
    [][(~SwitchInFlight')
          => /\ \A d \in DOMAIN devices_cache' :
                   OfPlatform(devices_cache'[d], platform')
             /\ GetDevicesReturns
                   => \A i \in DOMAIN ret'.val : OfPlatform(ret'.val[i], platform')]_vars

\* A get_devices call that began under the previous platform has stored
\* its records after set_platform returned.
C12_Witness ==
    /\ ~SwitchInFlight
    /\ ret.op = "get_devices" /\ ret.how = "miss"
    /\ \E d \in DOMAIN devices_cache : PlatformOf(d) # platform

GetDevicesStarts(c) ==
    /\ gd[c].pc = "idle"
    /\ \/ gd'[c].pc = "ids"
       \/ GetDevicesReturns /\ ret'.key = c /\ ret'.how = "hit"
Populated == cache_time # 0

\* C13: a get_devices call that starts less than cache_timeout after the
\* stamp of a discovery that filled the cache, with no clear_cache or
\* set_platform since, is served from the cache and runs no discovery.
C13_BurstServedFromCache ==
    [][\A c \in Threads :
          (GetDevicesStarts(c) /\ Populated /\ now - cache_time < cache_timeout)
            => (GetDevicesReturns /\ ret'.how = "hit" /\ gd' = gd)]_vars

\* A discovery that found no device has stamped the cache, and a call
\* that started while the stamp was young has run discovery again.
C13_Witness ==
    /\ Populated /\ devices_cache = << >>
    /\ gd[1].pc = "ids" /\ gd[1].t0 - cache_time < cache_timeout

GetDevicesStores(c) == gd[c].pc = "store" /\ gd'[c].pc = "idle"
Survivors(c) == SelectSeq(gd[c].ids, LAMBDA d : d \notin gd[c].failed)

\* C14: a get_devices call that missed the cache returns one record per
\* validated id whose detail fetch succeeded, in the order of enumeration,
\* and leaves the cache holding exactly the returned records by id.
C14_MissReturnsDetailedIds ==
    [][\A c \in Threads :
          GetDevicesStores(c)
            => /\ GetDevicesReturns /\ ret'.how = "miss"
               /\ DOMAIN ret'.val = DOMAIN Survivors(c)
               /\ \A i \in DOMAIN ret'.val :
                     /\ ret'.val[i].id = Survivors(c)[i]
                     /\ ret'.val[i].status = "connected"
               /\ DOMAIN devices_cache' = IdsOf(ret'.val)
               /\ \A i \in DOMAIN ret'.val :
                     devices_cache'[ret'.val[i].id] = ret'.val[i]]_vars

\* Of two validated ids the detail fetch of the first failed, and the call
\* has returned the second alone.
C14_Witness ==
    /\ ret.op = "get_devices" /\ ret.how = "miss"
    /\ ret.val = <<DeviceRecord("B")>>
    /\ DOMAIN devices_cache = {"B"}
    /\ {"A", "B"} \subseteq attached

GetDeviceInfoReturns(d) ==
    ret'.bit # ret.bit /\ ret'.op = "get_device_info" /\ ret'.key = d

\* C15: get_device_info(id) leaves the device-list cache and its stamp,
\* the DeviceCache, the platform, the registry and every call in flight
\* as they were, and starts no discovery.
C15_GetDeviceInfoIsPure ==
    [][\A d \in AllDevices :
          GetDeviceInfoReturns(d)
            => UNCHANGED <<devices_cache, cache_time, dcache, platform,
                           appium_servers, procs, gd>>]_vars

\* get_device_info has returned for an id that get_devices has listed.
C15_Witness ==
    /\ ret.op = "get_device_info"
    /\ ret.key \in DOMAIN devices_cache

\* C16: while the cache is young, get_device_info(X) for an id X that
\* get_devices has returned gives a record whose id is X.
C16_SameStore ==
    [][\A d \in AllDevices :
          (GetDeviceInfoReturns(d) /\ d \in DOMAIN devices_cache
             /\ now - cache_time < cache_timeout /\ d \in attached
             /\ PlatformOf(d) = platform /\ ~SwitchInFlight)
            => /\ ret'.val # << >>
               /\ ret'.val.id = d]_vars

\* get_device_info has returned {} for a listed, attached device.
C16_Witness ==
    /\ ret.op = "get_device_info" /\ ret.val = << >>
    /\ ret.key \in DOMAIN devices_cache /\ ret.key \in attached
    /\ now - cache_time < cache_timeout

\* ------------------------------------------------------- servers, again
StartCalls(t, p) ==
    /\ task[t].pc = "idle" /\ task'[t].pc # "idle"
    /\ task'[t].op \in Starts /\ task'[t].port = p

\* C17: a start on a port that answers a connection attempt returns False
\* at once, spawns no process, ends no process and leaves the registry
\* as it was, on the asynchronous and on the synchronous path.
C17_OccupiedPortRejected ==
    [][\A t \in Tasks : \A p \in Ports :
          (StartCalls(t, p) /\ is_port_in_use(p))
            => /\ task'[t].pc = "done" /\ task'[t].how = "busy"
               /\ UNCHANGED <<nspawn, procs, appium_servers>>]_vars

ListReturns == ret'.bit # ret.bit /\ ret'.op = "get_appium_servers"

\* C18: get_appium_servers returns no registered server whose health
\* probe fails at the time of the call.
C18_ListIsHealthy ==
    [][ListReturns => \A p \in ret'.val : HealthCanAnswer200(p)]_vars

\* The server of a listed port is dead.
C18_Witness ==
    /\ ret.op = "get_appium_servers" /\ ret.how = "listed"
    /\ \E p \in ret.val : ~HealthCanAnswer200(p) /\ Registered(p)

GetFreePortReturns == ret'.bit # ret.bit /\ ret'.op = "get_free_port"
FreeIn(a) == {p \in a.start_port..a.end_port :
                 /\ p \notin a.exclude_ports
                 /\ ~is_port_in_use(p)
                 /\ p \notin a.unbindable}

\* C19: get_free_port(start, end, exclude) returns the smallest port of
\* the range that is not excluded, answers no connect and can be bound,
\* and returns None, without raising, when there is no such port.
C19_SmallestFreePort ==
    [][GetFreePortReturns
          => /\ ret'.how = "returned"
             /\ IF FreeIn(ret'.key) = {}
                  THEN ret'.val = 0
                  ELSE /\ ret'.val \in FreeIn(ret'.key)
                       /\ \A p \in FreeIn(ret'.key) : ret'.val <= p]_vars

\* The first port of the range cannot be bound, and the scan has returned
\* the next.
C19_Witness ==
    /\ ret.op = "get_free_port" /\ ret.val = 2
    /\ ret.key.start_port = 1 /\ ret.key.exclude_ports = {}
    /\ 1 \in ret.key.unbindable /\ ~is_port_in_use(1)

\* C20: when an iteration of the monitor enumerates an id that was not
\* recorded as connected, then at the end of the iteration the device has
\* a record whose status is connected.
C20_NewIdBecomesConnected ==
    [][\A d \in Devices :
          (IterationRan /\ d \in iter'.seen /\ ~RecordedConnected(d))
            => \E r \in DeviceRecords(d)' : r.status = "connected"]_vars

\* An iteration has enumerated a device, and the manager holds no record
\* of it.
C20_Witness ==
    \E d \in Devices :
        /\ iter.err # "none" /\ d \in iter.seen
        /\ DeviceRecords(d) = {}

\* ------------------------------------------------------------ validation
GetDevicesValidates(c) == gd[c].pc = "ids" /\ gd'[c].pc = "detail"
IdsOfRecords(recs) == {recs[i].id : i \in DOMAIN recs}

\* C21: an enumerated id whose validation probe fails is surfaced by no
\* path: it is not among the ids _get_device_ids returns, a get_devices
\* call that ran a discovery returns only ids that passed the validation,
\* and an iteration of the monitor does not count it as connected.
C21_UnvalidatedNeverSurfaced ==
    [][/\ \A c \in Threads :
             /\ GetDevicesValidates(c) => ListedIds(c)' \cap unresponsive = {}
             /\ GetDevicesStores(c) => IdsOfRecords(ret'.val) \subseteq ListedIds(c)
       /\ IterationRan => iter'.seen \cap unresponsive = {}]_vars

\* ----------------------------------------------------------------- retry
RetryCalls(r) == Cardinality({i \in DOMAIN r.trace : r.trace[i] = "call"})
FirstResult(outcome) ==
    IF \E i \in DOMAIN outcome : ~Raises(outcome[i])
      THEN CHOOSE i \in DOMAIN outcome :
               /\ ~Raises(outcome[i])
               /\ \A j \in 1..(i - 1) : Raises(outcome[j])
      ELSE 0

\* C22: for max_retries = n >= 1, _retry_operation calls the operation at
\* most n times; it stops at the first call that does not raise and returns
\* that call's result; it sleeps only between two calls, never after the
\* last; and when all n calls raise it raises the error of the n-th call.
C22_RetryBounded ==
    (ret.op = "_retry_operation" /\ ret.key.max_retries >= 1) =>
        LET n == ret.key.max_retries
            outcome == ret.key.outcome
            r == ret.val
            k == FirstResult(outcome)
        IN  /\ RetryCalls(r) <= n
            /\ k # 0 => /\ ~r.raised /\ r.result = outcome[k]
                        /\ RetryCalls(r) = k
            /\ \A i \in DOMAIN r.trace :
                  r.trace[i] = "sleep"
                    => /\ i > 1 /\ r.trace[i - 1] = "call"
                       /\ i < Len(r.trace) /\ r.trace[i + 1] = "call"
            /\ k = 0 => /\ r.raised /\ r.result = outcome[n]
                        /\ RetryCalls(r) = n

\* With max_retries = 3 the operation raised twice and then returned: three
\* calls, a sleep after the first and after the second.
C22_Witness ==
    /\ ret.op = "_retry_operation" /\ ret.key.max_retries = 3
    /\ ret.key.outcome = <<"E1", "E2", "True">>
    /\ ret.val.trace = <<"call", "sleep", "call", "sleep", "call">>
    /\ ~ret.val.raised /\ ret.val.result = "True"

\* A step in which start_appium_server returns to its caller.
SyncStartReturns(t) ==
    task[t].op = "start_sync" /\ task[t].pc = "done" /\ task'[t].pc = "idle"
StartFailure == {"spawnerr", "timeout", "pollerr"}

\* C23: start_appium_server makes a further attempt after a failed one
\* while fewer than max_retries attempts were made, so it returns after a
\* failure only when max_retries attempts were made; and it returns True
\* once an attempt has succeeded.
C23_FailedStartIsRetried ==
    [][\A t \in Tasks :
          SyncStartReturns(t) =>
            LET r == start_appium_server(task[t].how)
            IN  /\ task[t].how \in StartFailure => RetryCalls(r) = max_retries
                /\ task[t].how = "registered" => r.result = "True"]_vars

\* start_appium_server is about to return False after one attempt that
\* timed out.
C23_Witness ==
    \E t \in Tasks :
        /\ task[t].op = "start_sync" /\ task[t].pc = "done"
        /\ task[t].how = "timeout"
        /\ start_appium_server(task[t].how).trace = <<"call">>
        /\ start_appium_server(task[t].how).result = "False"

\* ----------------------------------------------------------------- locks
\* The positions at which a call waits for something outside the manager:
\* the spawn of a process, the health poll, the exit of a process.
ExternalWait == {"spawn", "poll", "wait"}

\* C24: no call holds the registry lock while it waits on an external
\* call; a stop does not hold it while it waits for the exit of the
\* process or kills it.
C24_NoLockAcrossWait ==
    \A t \in Tasks : server_lock = t => task[t].pc \notin ExternalWait

\* A stop_appium_server_async call awaits the exit of the process it sent
\* terminate to, and holds the registry lock.
C24_Witness ==
    \E t \in Tasks :
        /\ task[t].op = "stop_async" /\ task[t].pc = "wait"
        /\ server_lock = t /\ Alive(task[t].proc)

\* ------------------------------------------------------------ stop order
IsStop(t) == task[t].op \in {"stop_async", "stop_sync"}
\* A stop call sends terminate and starts to wait for the exit.
StopTerminates(t) == task[t].pc # "wait" /\ task'[t].pc = "wait" /\ IsStop(t)'
\* A stop call leaves its wait and removes the entry.
StopFinishes(t) ==
    /\ IsStop(t) /\ task[t].pc = "wait"
    /\ task'[t].pc = "done" /\ task'[t].how \in {"graceful", "killed"}

\* C25: a stop of a registered port first requests terminate and leaves
\* the entry in place; it kills the process exactly when the process has
\* not exited by the end of the graceful wait; after that whoever still
\* listens on the port is killed by port; and the entry is removed in the
\* last step.  So for stop_appium_server_async and for stop_appium_server.
C25_StopOrder ==
    [][\A t \in Tasks :
          /\ StopTerminates(t)
               => /\ procs'[task'[t].proc].sig = "term"
                  /\ appium_servers' = appium_servers
          /\ StopFinishes(t)
               => LET q == task[t].proc
                      exited == IF Alive(q) THEN KillProc(procs, q) ELSE procs
                  IN  /\ task'[t].how = "killed" <=> Alive(q)
                      /\ procs' = kill_process_by_port(exited, task[t].port)
                      /\ ~Registered(task[t].port)']_vars

\* stop_appium_server_async has returned and removed the entry of its
\* port, on which a process of an earlier start still listens.
C25_Witness ==
    \E t \in Tasks :
        /\ task[t].op = "stop_async" /\ task[t].pc = "done"
        /\ task[t].how \in {"graceful", "killed"}
        /\ ~Registered(task[t].port) /\ is_port_in_use(task[t].port)

\* -------------------------------------------------------------- deadlock
\* Coroutine u of the shared event loop sits in the blocking acquire of the
\* registry lock while coroutine t of the same loop holds the lock: the
\* thread of the loop is blocked, so t never runs again and never
\* releases.
BlockedOn(u, t) ==
    /\ u # t /\ one_loop
    /\ InAcquire(u) /\ server_lock = t

\* C26: no deadlock on the registry lock: no coroutine of an event loop
\* ever blocks on the lock while another coroutine of that loop holds it,
\* so stops of distinct ports gathered on one loop, and a start that
\* registers during a stop, all return.
C26_NoLockDeadlock == \A t, u \in Tasks : ~BlockedOn(u, t)

\* Two stop_appium_server_async calls for distinct registered ports on one
\* loop: the first holds the lock and its process has exited, the second
\* blocks in the acquire; neither entry is removed.
C26_Witness ==
    \E t, u \in Tasks :
        /\ BlockedOn(u, t)
        /\ task[t].op = "stop_async" /\ task[u].op = "stop_async"
        /\ task[t].pc = "wait" /\ ~Alive(task[t].proc)
        /\ task[t].port # task[u].port
        /\ Registered(task[t].port) /\ Registered(task[u].port)

\* ---------------------------------------------------- monitor lifecycle
\* The manager as __init__ leaves it: the stop flag clear, no loop task
\* ever created.
FreshMonitor == ~stop_event /\ monitor_task = 0 /\ nloops = 0

\* C27: the first start_monitoring on a new manager, with no
\* stop_monitoring before it, creates the loop task.
C27_FirstStartStartsLoop ==
    [][\A c \in MonCallers :
          (MonCalls(c, "start") /\ FreshMonitor)
            => (LoopRunning' /\ monitor_task' # 0)]_vars

\* start_monitoring has returned on a manager that never had a loop task,
\* and it has none now.
C27_Witness ==
    \E c \in MonCallers :
        /\ mon[c].pc = "done" /\ mon[c].op = "start" /\ mon[c].how = "already"
        /\ nloops = 0 /\ monitor_task = 0

\* C28: in every reachable state at most one monitor loop task is alive,
\* also when start_monitoring runs while a stop_monitoring is pending.
C28_AtMostOneLoop == Cardinality({k \in LoopIds : LoopAlive(k)}) <= 1

\* A stop_monitoring still awaits the first loop task, which has gone on
\* iterating beside the task a later start_monitoring created.
C28_Witness ==
    \E c \in MonCallers :
        /\ mon[c].pc = "await" /\ mon[c].target = 1
        /\ loop[1] = "sleeping" /\ loop[2] = "sleeping"
        /\ ~stop_event

\* ----------------------------------------------------- enumerated device
\* C29: a device that an iteration of the monitor enumerates is not
\* treated as disconnected by that iteration: it is not handed to
\* _handle_device_disconnected, no record of it changes to disconnected,
\* and no entry of the registry is removed; on the Android and on the
\* iOS branch.
C29_EnumeratedNotDisconnected ==
    [][\A d \in AllDevices :
          (IterationRan /\ d \in iter'.seen)
            => /\ d \notin iter'.disconnected
               /\ DeviceRecords(d)' = DeviceRecords(d)
               /\ appium_servers' = appium_servers]_vars

\* Under the iOS platform an iteration has enumerated the iOS device,
\* which is recorded as connected.
C29_Witness ==
    /\ platform = "ios" /\ iter.err # "none"
    /\ "I" \in iter.seen
    /\ RecordedConnected("I") /\ "I" \notin iter.disconnected

\* The same on the Android branch.
C29_WitnessAndroid ==
    /\ platform = "android" /\ iter.err # "none"
    /\ "A" \in iter.seen
    /\ RecordedConnected("A") /\ "A" \notin iter.disconnected

\* ---------------------------------------------------------------- orphans
\* A start that has spawned its process ends in False.
StartFailsAfterSpawn(t) ==
    /\ task[t].op \in {"start_async", "start_sync"}
    /\ task[t].pc = "poll" /\ task[t].proc # 0
    /\ task'[t].pc = "done" /\ task'[t].how # "registered"

\* C30: when a start that has spawned a process returns False, the process
\* has been sent terminate or kill (or has exited by itself): it is not
\* left running outside the registry.
C30_NoOrphanProcess ==
    [][\A t \in Tasks :
          StartFailsAfterSpawn(t)
            => LET q == task[t].proc
               IN  \/ procs'[q].st \notin {"booting", "up"}
                   \/ procs'[q].sig = "term"]_vars

\* A start has returned False on an error of the poll while the process it
\* spawned runs on, no signal sent, its port absent from the registry.
C30_Witness ==
    \E t \in Tasks : \E q \in Procs :
        /\ task[t].pc = "done" /\ task[t].how = "pollerr"
        /\ Alive(q) /\ procs[q].sig = "none"
        /\ procs[q].port = task[t].port
        /\ ~Registered(task[t].port)
====
